---- MODULE Spec2Model ----
(***************************************************************************)
(* Model of tough/src/io.rs: the two validating Read decorators            *)
(* DigestAdapter (hash checked at end of file) and MaxSizeAdapter          *)
(* (cumulative byte limit), alone and wrapped around each other, over a    *)
(* cursor-like byte source that may chunk reads and fail with I/O errors.  *)
(***************************************************************************)
EXTENDS Integers, Sequences, FiniteSets, TLC

\* ---- bounds of the model ----
MaxLen == 2        \* longest content of the wrapped source

Byte == {0, 1}

VARIABLES
    mode,       \* which reader stack was constructed
    content,    \* bytes held by the wrapped source
    pos,        \* read position of the wrapped source
    hash,       \* DigestAdapter.hash
    digest,     \* DigestAdapter.digest
    size,       \* MaxSizeAdapter.size
    counter,    \* MaxSizeAdapter.counter
    last,       \* the most recent read call: buffer length, source result, result
    delivered,  \* bytes returned to the caller by the Ok calls so far
    seen,       \* the outcomes the calls so far have ended in
    zeroBuf,    \* some call passed a zero-length buffer
    srcFailed,  \* the wrapped source has returned an I/O error
    srcZero     \* the wrapped source has returned a zero count

state == <<mode, content, pos, hash, digest, size, counter>>
history == <<last, delivered, seen, zeroBuf, srcFailed, srcZero>>
vars == <<state, history>>

Min(a, b) == IF a < b THEN a ELSE b

SeqsUpTo(S, n) == UNION {[1..m -> S] : m \in 0..n}

\* ---- sha2::Sha256, scaled down to a two-bit digest ----
\* the compression step applied by Digest::input for one byte
Sha256Input(h, b) == (3 * h + b + 1) % 4

RECURSIVE Sha256State(_, _)
Sha256State(h, bytes) ==
    IF bytes = <<>> THEN h
    ELSE Sha256State(Sha256Input(h, Head(bytes)), Tail(bytes))

\* Sha256::new() followed by input(bytes) and result(): a fixed-length digest
Sha256(bytes) ==
    LET h == Sha256State(0, bytes) IN <<h \div 2, h % 2>>

\* ---- io::Result<usize> together with the bytes placed in buf ----
Ok(data) == [kind |-> "Ok", data |-> data]
Err(kind) == [kind |-> kind, data |-> <<>>]
NotCalled == [kind |-> "NotCalled", data |-> <<>>]

\* Option<D>: Some(accumulator over the bytes fed so far) or None
SomeDigest(input) == [some |-> TRUE, input |-> input]
NoneDigest == [some |-> FALSE, input |-> <<>>]

\* ---- the wrapped source: self.reader.read(buf) ----
\* counts the source may return for a buffer of n bytes: zero only for an
\* empty buffer or at end of file, otherwise any partial read
Chunks(n) ==
    IF n = 0 \/ pos = Len(content) THEN {0}
    ELSE 1..Min(n, Len(content) - pos)

ReaderRead(k, fail) ==
    IF fail THEN Err("IoError")
    ELSE Ok(SubSeq(content, pos + 1, pos + k))

\* ---- faulty variants of DigestAdapter::read ----
\* the bytes read are never fed to the accumulator
DigestAdapter_read_NoInput(dg, expected, r) ==
    IF ~dg.some
    THEN [digest |-> dg, res |-> Err("Panic"), delegated |-> FALSE]
    ELSE IF r.kind # "Ok"
    THEN [digest |-> dg, res |-> r, delegated |-> TRUE]
    ELSE IF Len(r.data) = 0
    THEN [digest |-> NoneDigest,
          res |-> IF Sha256(dg.input) # expected
                  THEN Err("HashMismatch") ELSE Ok(<<>>),
          delegated |-> TRUE]
    ELSE [digest |-> dg, res |-> Ok(r.data), delegated |-> TRUE]

\* the running hash is compared on every call, not only at end of file
DigestAdapter_read_EagerCheck(dg, expected, r) ==
    IF ~dg.some
    THEN [digest |-> dg, res |-> Err("Panic"), delegated |-> FALSE]
    ELSE IF r.kind # "Ok"
    THEN [digest |-> dg, res |-> r, delegated |-> TRUE]
    ELSE IF Len(r.data) = 0
    THEN [digest |-> NoneDigest,
          res |-> IF Sha256(dg.input) # expected
                  THEN Err("HashMismatch") ELSE Ok(<<>>),
          delegated |-> TRUE]
    ELSE [digest |-> SomeDigest(dg.input \o r.data),
          res |-> IF Sha256(dg.input \o r.data) # expected
                  THEN Err("HashMismatch") ELSE Ok(r.data),
          delegated |-> TRUE]

\* the finalized hash is never compared with the expected one
DigestAdapter_read_NoCompare(dg, expected, r) ==
    IF ~dg.some
    THEN [digest |-> dg, res |-> Err("Panic"), delegated |-> FALSE]
    ELSE IF r.kind # "Ok"
    THEN [digest |-> dg, res |-> r, delegated |-> TRUE]
    ELSE IF Len(r.data) = 0
    THEN [digest |-> NoneDigest, res |-> Ok(<<>>), delegated |-> TRUE]
    ELSE [digest |-> SomeDigest(dg.input \o r.data),
          res |-> Ok(r.data), delegated |-> TRUE]

\* the assertion is missing: a read after end of file goes to the source
DigestAdapter_read_NoAssert(dg, expected, r) ==
    IF r.kind # "Ok"
    THEN [digest |-> dg, res |-> r, delegated |-> TRUE]
    ELSE IF ~dg.some
    THEN [digest |-> dg, res |-> Ok(r.data), delegated |-> TRUE]
    ELSE IF Len(r.data) = 0
    THEN [digest |-> NoneDigest,
          res |-> IF Sha256(dg.input) # expected
                  THEN Err("HashMismatch") ELSE Ok(<<>>),
          delegated |-> TRUE]
    ELSE [digest |-> SomeDigest(dg.input \o r.data),
          res |-> Ok(r.data), delegated |-> TRUE]

\* the accumulator is taken before the source is read, and lost on an error
DigestAdapter_read_TakeOnError(dg, expected, r) ==
    IF ~dg.some
    THEN [digest |-> dg, res |-> Err("Panic"), delegated |-> FALSE]
    ELSE IF r.kind # "Ok"
    THEN [digest |-> NoneDigest, res |-> r, delegated |-> TRUE]
    ELSE IF Len(r.data) = 0
    THEN [digest |-> NoneDigest,
          res |-> IF Sha256(dg.input) # expected
                  THEN Err("HashMismatch") ELSE Ok(<<>>),
          delegated |-> TRUE]
    ELSE [digest |-> SomeDigest(dg.input \o r.data),
          res |-> Ok(r.data), delegated |-> TRUE]

\* the accumulator is finalized at end of file but left in place
DigestAdapter_read_KeepDigest(dg, expected, r) ==
    IF ~dg.some
    THEN [digest |-> dg, res |-> Err("Panic"), delegated |-> FALSE]
    ELSE IF r.kind # "Ok"
    THEN [digest |-> dg, res |-> r, delegated |-> TRUE]
    ELSE IF Len(r.data) = 0
    THEN [digest |-> dg,
          res |-> IF Sha256(dg.input) # expected
                  THEN Err("HashMismatch") ELSE Ok(<<>>),
          delegated |-> TRUE]
    ELSE [digest |-> SomeDigest(dg.input \o r.data),
          res |-> Ok(r.data), delegated |-> TRUE]

\* the finalized hash is compared only over the shorter of the two lengths
DigestAdapter_read_PrefixCompare(dg, expected, r) ==
    IF ~dg.some
    THEN [digest |-> dg, res |-> Err("Panic"), delegated |-> FALSE]
    ELSE IF r.kind # "Ok"
    THEN [digest |-> dg, res |-> r, delegated |-> TRUE]
    ELSE IF Len(r.data) = 0
    THEN LET result == Sha256(dg.input)
             n == Min(Len(result), Len(expected))
         IN [digest |-> NoneDigest,
             res |-> IF SubSeq(result, 1, n) # SubSeq(expected, 1, n)
                     THEN Err("HashMismatch") ELSE Ok(<<>>),
             delegated |-> TRUE]
    ELSE [digest |-> SomeDigest(dg.input \o r.data),
          res |-> Ok(r.data), delegated |-> TRUE]

\* new bytes are fed in front of the bytes already absorbed
DigestAdapter_read_Prepend(dg, expected, r) ==
    IF ~dg.some
    THEN [digest |-> dg, res |-> Err("Panic"), delegated |-> FALSE]
    ELSE IF r.kind # "Ok"
    THEN [digest |-> dg, res |-> r, delegated |-> TRUE]
    ELSE IF Len(r.data) = 0
    THEN [digest |-> NoneDigest,
          res |-> IF Sha256(dg.input) # expected
                  THEN Err("HashMismatch") ELSE Ok(<<>>),
          delegated |-> TRUE]
    ELSE [digest |-> SomeDigest(r.data \o dg.input),
          res |-> Ok(r.data), delegated |-> TRUE]

\* the assertion is inverted: it fails while the accumulator is present
DigestAdapter_read_InvertedAssert(dg, expected, r) ==
    IF dg.some
    THEN [digest |-> dg, res |-> Err("Panic"), delegated |-> FALSE]
    ELSE IF r.kind # "Ok"
    THEN [digest |-> dg, res |-> r, delegated |-> TRUE]
    ELSE IF Len(r.data) = 0
    THEN [digest |-> NoneDigest,
          res |-> IF Sha256(dg.input) # expected
                  THEN Err("HashMismatch") ELSE Ok(<<>>),
          delegated |-> TRUE]
    ELSE [digest |-> SomeDigest(dg.input \o r.data),
          res |-> Ok(r.data), delegated |-> TRUE]

\* ---- DigestAdapter::read; r is the result of self.reader.read(buf) ----
DigestAdapter_read(dg, expected, r) ==
    IF ~dg.some
    THEN [digest |-> dg, res |-> Err("Panic"), delegated |-> FALSE]
    ELSE IF r.kind # "Ok"
    THEN [digest |-> dg, res |-> r, delegated |-> TRUE]
    ELSE IF Len(r.data) = 0
    THEN [digest |-> NoneDigest,
          res |-> IF Sha256(dg.input) # expected
                  THEN Err("HashMismatch") ELSE Ok(<<>>),
          delegated |-> TRUE]
    ELSE [digest |-> SomeDigest(dg.input \o r.data),
          res |-> Ok(r.data), delegated |-> TRUE]

\* ---- faulty variants of MaxSizeAdapter::read ----
\* the limit is tested before the new bytes are added
MaxSizeAdapter_read_CheckBeforeAdd(cnt, max, r) ==
    IF r.kind # "Ok"
    THEN [counter |-> cnt, res |-> r]
    ELSE [counter |-> cnt + Len(r.data),
          res |-> IF cnt > max THEN Err("MaxSizeExceeded") ELSE Ok(r.data)]

\* the part of the overflowing chunk that still fits is returned
MaxSizeAdapter_read_Truncate(cnt, max, r) ==
    IF r.kind # "Ok"
    THEN [counter |-> cnt, res |-> r]
    ELSE LET c == cnt + Len(r.data) IN
         [counter |-> c,
          res |-> IF c > max
                  THEN (IF cnt < max
                        THEN Ok(SubSeq(r.data, 1, max - cnt))
                        ELSE Err("MaxSizeExceeded"))
                  ELSE Ok(r.data)]

\* the limit is exclusive: a total equal to it is refused
MaxSizeAdapter_read_Exclusive(cnt, max, r) ==
    IF r.kind # "Ok"
    THEN [counter |-> cnt, res |-> r]
    ELSE LET c == cnt + Len(r.data) IN
         [counter |-> c,
          res |-> IF c >= max THEN Err("MaxSizeExceeded") ELSE Ok(r.data)]

\* the bytes of a refused call are not added to the counter
MaxSizeAdapter_read_Uncounted(cnt, max, r) ==
    IF r.kind # "Ok"
    THEN [counter |-> cnt, res |-> r]
    ELSE LET c == cnt + Len(r.data) IN
         IF c > max
         THEN [counter |-> cnt, res |-> Err("MaxSizeExceeded")]
         ELSE [counter |-> c, res |-> Ok(r.data)]

\* the counter is cleared when the limit is exceeded
MaxSizeAdapter_read_ResetOnError(cnt, max, r) ==
    IF r.kind # "Ok"
    THEN [counter |-> cnt, res |-> r]
    ELSE LET c == cnt + Len(r.data) IN
         IF c > max
         THEN [counter |-> 0, res |-> Err("MaxSizeExceeded")]
         ELSE [counter |-> c, res |-> Ok(r.data)]

\* ---- MaxSizeAdapter::read; r is the result of self.reader.read(buf) ----
\* (counter is a usize: it cannot wrap before the source has passed 2^64
\* bytes, far beyond the contents modelled, so it is an unbounded integer)
MaxSizeAdapter_read(cnt, max, r) ==
    IF r.kind # "Ok"
    THEN [counter |-> cnt, res |-> r]
    ELSE LET c == cnt + Len(r.data) IN
         [counter |-> c,
          res |-> IF c > max THEN Err("MaxSizeExceeded") ELSE Ok(r.data)]

\* ---- construction ----
Modes == {"Digest", "MaxSize", "MaxOverDigest", "DigestOverMax"}
HasDigest(m) == m # "MaxSize"
HasMaxSize(m) == m # "Digest"

\* expected digests handed to DigestAdapter::sha256: every well-formed
\* digest, one too short and one too long
Hashes == [1..Len(Sha256(<<>>)) -> Byte] \cup {<<>>, <<0, 0, 0>>}

\* how a call ended, as its caller sees it
Outcomes == {"Data", "Zero", "IoError", "HashMismatch", "MaxSizeExceeded", "Panic"}
Outcome(res) ==
    IF res.kind = "Ok"
    THEN (IF res.data = <<>> THEN "Zero" ELSE "Data")
    ELSE res.kind

Init ==
    /\ mode \in Modes
    /\ content \in SeqsUpTo(Byte, MaxLen)
    /\ pos = 0
    /\ hash \in (IF HasDigest(mode) THEN Hashes ELSE {<<>>})
    /\ digest = SomeDigest(<<>>)
    /\ size \in (IF HasMaxSize(mode) THEN 0..(MaxLen + 1) ELSE {0})
    /\ counter = 0
    /\ last = [buf |-> 0, src |-> NotCalled, res |-> NotCalled]
    /\ delivered = <<>>
    /\ seen = {}
    /\ zeroBuf = FALSE
    /\ srcFailed = FALSE
    /\ srcZero = FALSE

\* ---- one read call on the outermost reader ----
Inputs(n, k, fail) ==
    \/ fail /\ k = 0
    \/ ~fail /\ k \in Chunks(n)

\* the source advances if it was read, and the call is recorded
Finish(n, r, delegated, res) ==
    LET src == IF delegated THEN r ELSE NotCalled IN
    /\ pos' = pos + Len(src.data)
    /\ last' = [buf |-> n, src |-> src, res |-> res]
    /\ delivered' = delivered \o res.data
    /\ seen' = seen \cup {Outcome(res)}
    /\ zeroBuf' = (zeroBuf \/ n = 0)
    /\ srcFailed' = (srcFailed \/ src.kind = "IoError")
    /\ srcZero' = (srcZero \/ src = Ok(<<>>))
    /\ UNCHANGED <<mode, content, hash, size>>

ReadDigest ==
    /\ mode = "Digest"
    /\ \E n \in 0..MaxLen, k \in 0..MaxLen, fail \in BOOLEAN :
        /\ Inputs(n, k, fail)
        /\ LET src == ReaderRead(k, fail)
               d == DigestAdapter_read(digest, hash, src)
           IN /\ digest' = d.digest
              /\ UNCHANGED counter
              /\ Finish(n, src, d.delegated, d.res)

ReadMaxSize ==
    /\ mode = "MaxSize"
    /\ \E n \in 0..MaxLen, k \in 0..MaxLen, fail \in BOOLEAN :
        /\ Inputs(n, k, fail)
        /\ LET src == ReaderRead(k, fail)
               m == MaxSizeAdapter_read(counter, size, src)
           IN /\ counter' = m.counter
              /\ UNCHANGED digest
              /\ Finish(n, src, TRUE, m.res)

\* MaxSizeAdapter::new(DigestAdapter::sha256(source, hash), size)
ReadMaxOverDigest ==
    /\ mode = "MaxOverDigest"
    /\ \E n \in 0..MaxLen, k \in 0..MaxLen, fail \in BOOLEAN :
        /\ Inputs(n, k, fail)
        /\ LET src == ReaderRead(k, fail)
               d == DigestAdapter_read(digest, hash, src)
               m == MaxSizeAdapter_read(counter, size, d.res)
           IN /\ digest' = d.digest
              /\ counter' = m.counter
              /\ Finish(n, src, d.delegated, m.res)

\* DigestAdapter::sha256(MaxSizeAdapter::new(source, size), hash)
ReadDigestOverMax ==
    /\ mode = "DigestOverMax"
    /\ \E n \in 0..MaxLen, k \in 0..MaxLen, fail \in BOOLEAN :
        /\ Inputs(n, k, fail)
        /\ LET src == ReaderRead(k, fail)
               m == MaxSizeAdapter_read(counter, size, src)
               d == DigestAdapter_read(digest, hash, m.res)
           IN /\ digest' = d.digest
              /\ counter' = IF d.delegated THEN m.counter ELSE counter
              /\ Finish(n, src, d.delegated, d.res)

Next == ReadDigest \/ ReadMaxSize \/ ReadMaxOverDigest \/ ReadDigestOverMax

Spec == Init /\ [][Next]_vars

\* ---- a caller that reads one adapter to the end, as read_to_end does ----
\* It passes non-empty buffers, its source does not fail, and it stops at
\* the first call that returns zero bytes or an error.
Streaming == seen \subseteq {"Data"}

CallerInit == Init /\ mode \in {"Digest", "MaxSize"}

CallerReadDigest ==
    /\ Streaming
    /\ ReadDigest
    /\ last'.buf > 0
    /\ last'.src.kind # "IoError"

CallerReadMaxSize ==
    /\ Streaming
    /\ ReadMaxSize
    /\ last'.buf > 0
    /\ last'.src.kind # "IoError"

CallerNext == CallerReadDigest \/ CallerReadMaxSize

\* the caller keeps calling while it has seen neither zero bytes nor an error
SpecLive == CallerInit /\ [][CallerNext]_vars /\ WF_vars(CallerNext)

\* ---- properties ----
\* the source bytes passed so far
Passed == SubSeq(content, 1, pos)

\* C1: a DigestAdapter whose expected digest is the hash of the content, read
\* with non-empty buffers from a source that does not fail, up to the call
\* that returns zero bytes: no call returns an error, the bytes returned are
\* exactly the content, and the last call returns zero bytes without error.
C1_Pre ==
    /\ mode = "Digest"
    /\ hash = Sha256(content)
    /\ ~zeroBuf /\ ~srcFailed
    /\ "Panic" \notin seen
C1_MatchingDigestReadsAll ==
    C1_Pre =>
        /\ seen \subseteq {"Data", "Zero"}
        /\ delivered = Passed
        /\ srcZero => last.res = Ok(<<>>)
        /\ "Zero" \in seen => srcZero /\ delivered = content
C1_Witness ==
    /\ C1_Pre
    /\ last.res = Ok(<<>>)
    /\ Len(delivered) > 1
    /\ last.buf = 1

\* C2: a DigestAdapter whose expected digest differs from the hash of the
\* content, read with non-empty buffers: every call that gets bytes from the
\* source returns them, and hash mismatch is returned by the call at which
\* the source first returns zero bytes, after all the content, and by no
\* other call.
C2_Pre ==
    /\ mode = "Digest"
    /\ hash # Sha256(content)
    /\ ~zeroBuf
C2_Call ==
    C2_Pre' =>
        /\ (last'.src.kind = "Ok" /\ last'.src.data # <<>>)
              => last'.res = Ok(last'.src.data)
        /\ (last'.res.kind = "HashMismatch")
              <=> (last'.src = Ok(<<>>) /\ ~srcZero)
        /\ (last'.res.kind = "HashMismatch") => delivered' = content
C2_MismatchOnlyAtEndOfStream == [][C2_Call]_vars
C2_Witness ==
    /\ C2_Pre
    /\ last.res.kind = "HashMismatch"
    /\ Len(delivered) > 1
    /\ last.buf = 1

\* C3: a MaxSizeAdapter over a source that does not fail: while the bytes
\* passed by the source stay within the limit every call returns what the
\* source returned, so content no longer than the limit is delivered whole
\* up to end of stream; the call at which the bytes passed first exceed the
\* limit returns size-exceeded.
C3_Pre ==
    /\ mode = "MaxSize"
    /\ ~srcFailed
C3_Call ==
    C3_Pre' =>
        /\ pos' <= size => /\ last'.res = last'.src
                           /\ last'.res.kind = "Ok"
                           /\ delivered' = Passed'
        /\ (pos <= size /\ pos' > size)
              => last'.res = Err("MaxSizeExceeded")
        /\ Len(content) <= size => pos' <= size
        /\ (Len(content) <= size /\ last'.buf > 0 /\ last'.src = Ok(<<>>))
              => delivered' = content
C3_LimitEnforcedAtFirstExcess == [][C3_Call]_vars
C3_Witness ==
    /\ C3_Pre
    /\ last.res.kind = "MaxSizeExceeded"
    /\ delivered # <<>>
    /\ seen = {"Data", "MaxSizeExceeded"}

\* C4: the two adapters wrapped around each other, in either order, read with
\* non-empty buffers from a source that does not fail, up to the first call
\* that returns an error or zero bytes: that call returns size-exceeded if
\* the bytes passed go over the limit, else at end of stream hash mismatch if
\* the content does not hash to the expected digest, else zero bytes without
\* error after all the content; so the read succeeds iff the content fits
\* the limit and has the expected digest.
C4_Pre ==
    /\ mode \in {"MaxOverDigest", "DigestOverMax"}
    /\ ~zeroBuf /\ ~srcFailed
C4_Call ==
    (C4_Pre' /\ seen \subseteq {"Data"}) =>
        /\ last'.res =
              IF pos' > size THEN Err("MaxSizeExceeded")
              ELSE IF last'.src # Ok(<<>>) THEN last'.src
              ELSE IF hash # Sha256(content) THEN Err("HashMismatch")
              ELSE Ok(<<>>)
        /\ last'.res.kind = "MaxSizeExceeded" => pos <= size
        /\ last'.res.kind = "Ok" => delivered' = Passed'
        /\ last'.res = Ok(<<>>)
              <=> /\ pos = Len(content)
                  /\ Len(content) <= size
                  /\ hash = Sha256(content)
        /\ (Len(content) <= size /\ hash = Sha256(content))
              => last'.res.kind = "Ok"
C4_ComposedFailsAtFirstFailingCheck == [][C4_Call]_vars
C4_Witness ==
    /\ C4_Pre
    /\ mode = "DigestOverMax"
    /\ hash # Sha256(content)
    /\ seen = {"Data", "MaxSizeExceeded"}
C4_WitnessOtherOrder ==
    /\ C4_Pre
    /\ mode = "MaxOverDigest"
    /\ Len(content) = size
    /\ seen = {"Data", "HashMismatch"}

\* C5: at the MaxSizeAdapter call whose bytes take the running total past
\* the limit the caller gets size-exceeded and no bytes, not even the part
\* that would fit, and all the bytes of the call are added to the counter.
C5_Call ==
    (/\ mode = "MaxSize"
     /\ last'.src.kind = "Ok"
     /\ counter <= size
     /\ counter + Len(last'.src.data) > size) =>
        /\ last'.res = Err("MaxSizeExceeded")
        /\ delivered' = delivered
        /\ counter' = counter + Len(last'.src.data)
        /\ pos' = pos + Len(last'.src.data)
C5_OverflowingCallDeliversNothing == [][C5_Call]_vars
C5_Witness ==
    /\ mode = "MaxSize"
    /\ last.res.kind = "MaxSizeExceeded"
    /\ Len(last.src.data) > 1
    /\ counter - Len(last.src.data) < size

\* C6 as stated: for either adapter alone, once a call has returned clean
\* end of stream, hash mismatch, size-exceeded or a propagated I/O error, no
\* later call returns bytes.
C6_Done ==
    \/ seen \cap {"HashMismatch", "MaxSizeExceeded"} # {}
    \/ mode = "Digest" /\ "Zero" \in seen
    \/ mode = "MaxSize" /\ "Zero" \in seen /\ ~zeroBuf
C6_OriginalCall ==
    (mode \in {"Digest", "MaxSize"} /\ (C6_Done \/ "IoError" \in seen))
        => Outcome(last'.res) # "Data"
C6_DoneIsAbsorbing == [][C6_OriginalCall]_vars

\* C6 amended: once a call has returned clean end of stream, hash mismatch
\* or size-exceeded, no later call returns bytes: a DigestAdapter panics on
\* every later call, a MaxSizeAdapter that has returned size-exceeded
\* returns it again whenever its source read succeeds, and one that has
\* returned clean end of stream returns zero bytes or the source's I/O
\* error. A propagated I/O error is not terminal.
C6_AmendedCall ==
    (mode \in {"Digest", "MaxSize"} /\ C6_Done) =>
        /\ Outcome(last'.res) # "Data"
        /\ mode = "Digest" => Outcome(last'.res) = "Panic"
        /\ (mode = "MaxSize" /\ "MaxSizeExceeded" \in seen)
              => Outcome(last'.res) \in {"MaxSizeExceeded", "IoError"}
        /\ (mode = "MaxSize" /\ "MaxSizeExceeded" \notin seen)
              => Outcome(last'.res) \in {"Zero", "IoError"}
C6_DoneExceptIoErrorIsAbsorbing == [][C6_AmendedCall]_vars
C6_Witness ==
    /\ mode = "Digest"
    /\ seen = {"IoError", "Data", "Zero", "Panic"}
    /\ last.res.kind = "Panic"
    /\ delivered = content

\* C7: a DigestAdapter that has received a zero count from its source hits
\* the assertion on every later call: the call returns neither Ok nor an
\* error, and the source is not read.
C7_Call ==
    (mode \in {"Digest", "MaxOverDigest"} /\ srcZero) =>
        /\ Outcome(last'.res) = "Panic"
        /\ last'.src = NotCalled
        /\ UNCHANGED <<pos, digest, counter, delivered>>
C7_ReadAfterEndOfFilePanics == [][C7_Call]_vars
C7_Witness ==
    /\ mode = "Digest"
    /\ {"HashMismatch", "Panic"} \subseteq seen
    /\ last.res.kind = "Panic"
    /\ pos = Len(content)

\* C8: when the wrapped source's read fails with an I/O error the call
\* returns that error, the accumulator is still present and has absorbed
\* nothing more, and the counter keeps its value.
C8_Call ==
    last'.src.kind = "IoError" =>
        /\ last'.res = last'.src
        /\ digest' = digest
        /\ HasDigest(mode) => digest'.some
        /\ counter' = counter
        /\ delivered' = delivered
C8_IoErrorLeavesAdaptersUnchanged == [][C8_Call]_vars
C8_Witness ==
    /\ mode = "DigestOverMax"
    /\ last.src.kind = "IoError"
    /\ counter > 0
    /\ digest.input # <<>>

\* C9 as stated: over any sequence of calls on one adapter, hash mismatch is
\* returned by at most one call and size-exceeded by at most one call.
C9_OriginalCall ==
    (mode \in {"Digest", "MaxSize"}
     /\ last'.res.kind \in {"HashMismatch", "MaxSizeExceeded"})
        => last'.res.kind \notin seen
C9_EachFailureReturnedOnce == [][C9_OriginalCall]_vars

\* C9 amended: hash mismatch is returned by at most one call, the one at
\* which the source first returns zero bytes; size-exceeded is returned
\* first by the call at which the cumulative count first exceeds the limit,
\* and again by every later call whose source read succeeds.
C9_AmendedCall ==
    /\ (mode = "Digest" /\ last'.res.kind = "HashMismatch")
          => /\ "HashMismatch" \notin seen
             /\ last'.src = Ok(<<>>)
             /\ ~srcZero
    /\ (mode = "MaxSize" /\ last'.res.kind = "MaxSizeExceeded"
         /\ "MaxSizeExceeded" \notin seen)
          => (pos <= size /\ pos' > size)
    /\ (mode = "MaxSize" /\ "MaxSizeExceeded" \in seen
         /\ last'.src.kind = "Ok")
          => last'.res = Err("MaxSizeExceeded")
C9_MismatchOnceExceededSticky == [][C9_AmendedCall]_vars
C9_Witness ==
    /\ mode = "MaxSize"
    /\ last.res.kind = "MaxSizeExceeded"
    /\ last.src = Ok(<<>>)
    /\ last.buf > 0

\* C10: the MaxSizeAdapter limit is inclusive: a call that brings the
\* cumulative count to exactly the limit succeeds; the end-of-stream call
\* that follows leaves the counter unchanged and returns zero bytes without
\* error; with a limit of zero the first call in which the source yields a
\* byte returns size-exceeded.
C10_Call ==
    mode = "MaxSize" =>
        /\ (last'.src.kind = "Ok" /\ pos' = size)
              => /\ last'.res = Ok(last'.src.data)
                 /\ counter' = size
        /\ (last'.src = Ok(<<>>) /\ pos = size)
              => /\ counter' = counter
                 /\ last'.res = Ok(<<>>)
        /\ (size = 0 /\ last'.src.kind = "Ok" /\ last'.src.data # <<>>)
              => /\ last'.res = Err("MaxSizeExceeded")
                 /\ "Data" \notin seen
C10_LimitIsInclusive == [][C10_Call]_vars
C10_Witness ==
    /\ mode = "MaxSize"
    /\ last.res = Ok(<<>>)
    /\ last.buf > 0
    /\ counter = size
    /\ size > 1
    /\ delivered = content

\* C11: over a source that holds no bytes, the first DigestAdapter read whose
\* source read succeeds returns zero bytes without error iff the expected
\* digest is the hash of the empty input, and hash mismatch otherwise; the
\* first MaxSizeAdapter read returns zero bytes without error for every
\* limit, zero included.
C11_Call ==
    (content = <<>> /\ seen = {} /\ last'.src.kind = "Ok") =>
        /\ last'.src = Ok(<<>>)
        /\ mode = "Digest" =>
              last'.res = IF hash = Sha256(<<>>)
                          THEN Ok(<<>>) ELSE Err("HashMismatch")
        /\ mode = "MaxSize" => last'.res = Ok(<<>>) /\ counter' = 0
C11_EmptyContent == [][C11_Call]_vars
C11_Witness ==
    /\ content = <<>>
    /\ mode = "MaxSize"
    /\ size = 0
    /\ last.buf > 0
    /\ seen = {"Zero"}
C11_WitnessDigest ==
    /\ content = <<>>
    /\ mode = "Digest"
    /\ hash = Sha256(<<>>)
    /\ last.buf > 0
    /\ seen = {"Zero"}

\* C12: a DigestAdapter can be built with an expected digest of the wrong
\* length; every read that gets bytes from the source still returns them,
\* and the call at which the source first returns zero bytes returns hash
\* mismatch, whatever the content.
C12_Pre ==
    /\ mode = "Digest"
    /\ Len(hash) # Len(Sha256(content))
C12_Call ==
    C12_Pre =>
        /\ (last'.src.kind = "Ok" /\ last'.src.data # <<>>)
              => last'.res = Ok(last'.src.data)
        /\ (last'.src = Ok(<<>>)) => last'.res = Err("HashMismatch")
        /\ Outcome(last'.res) # "Zero"
C12_WrongLengthNeverMatches == [][C12_Call]_vars
C12_Witness ==
    /\ C12_Pre
    /\ Len(hash) > Len(Sha256(content))
    /\ SubSeq(hash, 1, Len(Sha256(content))) = Sha256(content)
    /\ last.res.kind = "HashMismatch"
    /\ content # <<>>
    /\ delivered = content

\* C13: in a DigestAdapter the accumulator is present iff the wrapped source
\* has not yet returned a zero count; it is taken only at the call where
\* the source first returns zero, and never put back.
C13_Call ==
    mode \in {"Digest", "MaxOverDigest"} =>
        /\ digest.some <=> ~srcZero
        /\ digest'.some <=> ~srcZero'
        /\ (digest.some /\ ~digest'.some)
              => (last'.src = Ok(<<>>) /\ ~srcZero)
        /\ ~digest.some => digest' = digest
C13_AccumulatorTakenOnceAtEndOfStream == [][C13_Call]_vars
C13_Witness ==
    /\ mode = "Digest"
    /\ ~digest.some
    /\ srcZero
    /\ "Panic" \in seen
    /\ "IoError" \in seen
    /\ delivered = content
    /\ Len(content) > 1

\* C14 as stated: in every reachable state of a MaxSizeAdapter the counter
\* equals the number of bytes its successful calls have returned.
C14_CounterIsDeliveredBytes ==
    mode = "MaxSize" => counter = Len(delivered)

\* C14 amended: the counter equals the number of bytes the wrapped source
\* has returned to the adapter; that is the number of bytes returned to the
\* caller as long as no call has returned size-exceeded, and after a
\* size-exceeded call it is above the limit and above the bytes returned,
\* by the bytes of the refused calls.
C14_CounterIsSourceBytes ==
    mode = "MaxSize" =>
        /\ counter = pos
        /\ "MaxSizeExceeded" \notin seen => counter = Len(delivered)
        /\ "MaxSizeExceeded" \in seen
              => /\ counter > size
                 /\ Len(delivered) <= size
                 /\ delivered = SubSeq(content, 1, Len(delivered))
C14_Witness ==
    /\ mode = "MaxSize"
    /\ "MaxSizeExceeded" \in seen
    /\ "IoError" \in seen
    /\ delivered # <<>>
    /\ counter = Len(delivered) + 1

\* C15: a DigestAdapter call whose accumulator is present reads the wrapped
\* source once, with its own buffer, and returns the bytes it got when
\* there are any; while the accumulator is present the bytes it has
\* absorbed are, in order, the bytes returned to the caller so far.
C15_Call ==
    (mode = "Digest" /\ digest.some) =>
        /\ last'.src # NotCalled
        /\ Len(last'.src.data) <= last'.buf
        /\ pos' = pos + Len(last'.src.data)
        /\ (last'.src.kind = "Ok" /\ last'.src.data # <<>>)
              => last'.res = last'.src
        /\ digest.input = delivered
        /\ digest'.some => digest'.input = delivered'
        /\ delivered' = Passed'
C15_HashedBytesAreDeliveredBytes == [][C15_Call]_vars
C15_Witness ==
    /\ mode = "Digest"
    /\ digest.some
    /\ digest.input = <<0, 1>>
    /\ last.buf = 1
    /\ "IoError" \in seen

\* C16: over a finite source that does not fail, a caller that keeps reading
\* with non-empty buffers until it sees zero bytes or an error eventually
\* gets a terminal outcome: clean end of stream or hash mismatch from a
\* DigestAdapter, clean end of stream or size-exceeded from a MaxSizeAdapter.
C16_Terminal ==
    \/ mode = "Digest" /\ Outcome(last.res) \in {"Zero", "HashMismatch"}
    \/ mode = "MaxSize" /\ Outcome(last.res) \in {"Zero", "MaxSizeExceeded"}
C16_EventuallyTerminal == <>C16_Terminal
C16_Witness ==
    /\ mode = "Digest"
    /\ last.res.kind = "HashMismatch"
    /\ Len(delivered) > 1
    /\ last.buf = 1

\* C17: the MaxSizeAdapter counter never decreases, so size-exceeded is
\* sticky: once a call has returned it, every later call whose source read
\* succeeds returns it too, the zero-byte call at end of stream included.
C17_Call ==
    mode = "MaxSize" =>
        /\ counter' >= counter
        /\ counter > size => counter' > size
        /\ ("MaxSizeExceeded" \in seen /\ last'.src.kind = "Ok")
              => /\ last'.res = Err("MaxSizeExceeded")
                 /\ delivered' = delivered
C17_SizeExceededIsSticky == [][C17_Call]_vars
C17_Witness ==
    /\ mode = "MaxSize"
    /\ last.res.kind = "MaxSizeExceeded"
    /\ last.src = Ok(<<>>)
    /\ last.buf > 0
    /\ srcZero
    /\ "Data" \in seen

\* C18: a DigestAdapter read with a zero-length buffer while the source
\* still holds bytes gets zero from the source and is treated as end of
\* stream: the accumulator is finalized over the bytes delivered so far,
\* the call returns hash mismatch unless they hash to the expected digest,
\* and every later call hits the assertion, so the rest is never read.
C18_Call ==
    mode = "Digest" =>
        /\ (digest.some /\ last'.buf = 0 /\ pos < Len(content)
             /\ last'.src.kind = "Ok")
              => /\ last'.src = Ok(<<>>)
                 /\ ~digest'.some
                 /\ last'.res = IF Sha256(Passed) = hash
                                 THEN Ok(<<>>) ELSE Err("HashMismatch")
                 /\ pos' = pos
        /\ (~digest.some /\ pos < Len(content))
              => /\ Outcome(last'.res) = "Panic"
                 /\ pos' = pos
                 /\ delivered' = delivered
C18_ZeroBufferEndsTheStream == [][C18_Call]_vars
C18_Witness ==
    /\ mode = "Digest"
    /\ zeroBuf
    /\ 0 < pos /\ pos < Len(content)
    /\ "HashMismatch" \in seen
    /\ last.res.kind = "Panic"
    /\ last.buf > 0

\* C19: a DigestAdapter stays usable after a propagated I/O error: later
\* calls do not hit the assertion, they feed the same accumulator, and the
\* verdict of the end-of-stream call is computed over all bytes delivered
\* before and after the error.
C19_Call ==
    (mode = "Digest" /\ srcFailed /\ ~srcZero) =>
        /\ Outcome(last'.res) # "Panic"
        /\ last'.src # NotCalled
        /\ digest = SomeDigest(Passed)
        /\ (last'.src.kind = "Ok" /\ last'.src.data # <<>>)
              => /\ last'.res = last'.src
                 /\ digest' = SomeDigest(Passed')
        /\ last'.src = Ok(<<>>)
              => last'.res = IF Sha256(Passed) = hash
                             THEN Ok(<<>>) ELSE Err("HashMismatch")
        /\ (last'.src = Ok(<<>>) /\ last'.buf > 0) => Passed = content
C19_UsableAfterIoError == [][C19_Call]_vars
C19_Witness ==
    /\ mode = "Digest"
    /\ srcFailed /\ ~zeroBuf
    /\ last.res = Ok(<<>>)
    /\ delivered = content
    /\ Len(content) > 1

TypeOK ==
    /\ mode \in Modes
    /\ pos \in 0..Len(content)
    /\ counter \in 0..Len(content)
    /\ Outcome(last.res) \in Outcomes \cup {"NotCalled"}
====
